---- MODULE Spec2Model ----
(***************************************************************************)
(* dire::MultiGrid<dim, Data> (include/multi_grid.hpp): a fixed-shape grid *)
(* whose cells hold several data.  Data are buffered by add(), grouped per *)
(* cell by compress() (a counting sort into a CSR layout) and read back by *)
(* enumerateData().                                                        *)
(*                                                                         *)
(* std::vector and std::array are modelled as functions over 0..n-1, so    *)
(* that every index of the model is the index the code computes.           *)
(***************************************************************************)
EXTENDS Integers, FiniteSets, Sequences, TLC

(* ------------------------------ bounds -------------------------------- *)

\* Successful add() calls made on one grid over its whole life.
MaxAdds == 2

\* Largest extent of the shapes linearize() is examined on (LinSpec).
MaxLinExtent == 4

(* ------------------------- template parameters ------------------------ *)

\* template <size_t dim, class Data>: the instantiation examined is
\* MultiGrid<2, int>.
dim == 2

\* The values of Data handed to add().
Data == {1, 2}

\* Data(): what vector::resize puts in the elements it creates.
DefaultData == 0

\* Components of the grid sizes and cell ids handed in by the caller.
Extents == 0 .. 2

\* Values of the constructor's buff_size.
BuffSizes == {0, 1}

GridSize == [0 .. dim - 1 -> Extents]
CellId == [0 .. dim - 1 -> Extents]

(* ------------------------------ vectors ------------------------------- *)

Size(v) == Cardinality(DOMAIN v)

EmptyVector == [i \in {} |-> 0]

PushBack(v, x) == [i \in 0 .. Size(v) |-> IF i < Size(v) THEN v[i] ELSE x]

\* vector::resize(n, x): the first n elements are kept, new ones are x.
Resize(v, n, x) == [i \in 0 .. n - 1 |-> IF i < Size(v) THEN v[i] ELSE x]

\* std::fill over the whole vector.
Fill(v, x) == [i \in DOMAIN v |-> x]

\* vector::reserve(n) on a vector of capacity cap: the capacity is at least n
\* afterwards, and is never reduced.
Reserve(cap, n) == IF n > cap THEN n ELSE cap

\* The capacity after the vector has grown to n elements (push_back, resize):
\* n elements beyond the capacity make the vector reallocate to hold them.
Reallocate(cap, n) == IF n > cap THEN n ELSE cap

(* ------------------------------- state -------------------------------- *)

VARIABLES
    alive,            \* the constructor returned: the object exists
    grid_size_,       \* GridSize grid_size_
    num_cells_,       \* size_t num_cells_
    compressed_,      \* bool compressed_
    raw_data_,        \* RawData: [data, cell_ids]
    compressed_data_, \* CompressedData: [data, num_data_per_cell,
                      \*   first_data_id_per_cell, next_data_id_per_cell_buff]
    capacity,         \* the storage reserved by the three vectors of items:
                      \*   [raw_data, raw_cell_ids, compressed_data]
    call,             \* the last call made and how it ended
    added,            \* history: the (cell id, data) pairs added successfully
                      \*   since construction or the last clear(), in order
    num_added         \* history: successful add() calls since construction

members == <<alive, grid_size_, num_cells_, compressed_, raw_data_, compressed_data_,
             capacity>>
vars == <<alive, grid_size_, num_cells_, compressed_, raw_data_, compressed_data_,
          capacity, call, added, num_added>>

(* Each call leaves a record in `call`: its name, its arguments, the value  *)
(* of compressed_ when it was made (was_compressed), and how it ended      *)
(* (ret): "ok", or the exception thrown, named as the specification names  *)
(* it:                                                                     *)
(*   "InvalidShape"   std::runtime_error of the constructor                *)
(*   "OutOfRange"     std::out_of_range of add() and enumerateData()       *)
(*   "NotCompressed"  std::runtime_error of enumerateData()                *)
(* A successful enumerateData() also records the offsets of the two        *)
(* iterators it returns from compressed_data_.data.begin() (begin, end).   *)

(* ----------------------------- linearize ------------------------------ *)

\* The loop of linearize(), from iteration i on.
RECURSIVE linearize_loop(_, _, _, _)
linearize_loop(cell_id, i, storage_id, mult) ==
    IF i < dim
    THEN linearize_loop(cell_id, i + 1, storage_id + cell_id[i] * mult,
                        mult * grid_size_[i])
    ELSE storage_id

\* Faulty variant: the last dimension varies fastest.
RECURSIVE linearize_LastFastest_loop(_, _, _, _)
linearize_LastFastest_loop(cell_id, i, storage_id, mult) ==
    IF i > 0
    THEN linearize_LastFastest_loop(cell_id, i - 1,
                                    storage_id + cell_id[i - 1] * mult,
                                    mult * grid_size_[i - 1])
    ELSE storage_id

linearize_LastFastest(cell_id) == linearize_LastFastest_loop(cell_id, dim, 0, 1)

linearize(cell_id) == linearize_loop(cell_id, 0, 0, 1)

\* The validation loop of add() and of enumerateData(): some component of
\* the cell id is not below the grid size.
InvalidCellId(cell_id) == \E i \in 0 .. dim - 1 : cell_id[i] >= grid_size_[i]

(* ---------------------------- construction ---------------------------- *)

(* size_t and int values are kept as their bytes, least significant first  *)
(* (a function over 0 .. 7 for the 64-bit size_t, over 0 .. 3 for the       *)
(* 32-bit int), so that the arithmetic of the num_cells_ initialiser wraps  *)
(* where the machine's does.                                                *)

\* Byte k of the natural number n.
RECURSIVE Byte(_, _)
Byte(n, k) == IF k = 0 THEN n % 256 ELSE Byte(n \div 256, k - 1)

\* The natural number n as a size_t.
SizeT(n) == [k \in 0 .. 7 |-> Byte(n, k)]

\* The int literal n (n >= 0).
IntLiteral(n) == [k \in 0 .. 3 |-> Byte(n, k)]

\* Conversion of a size_t to int: the low 32 bits are kept.
ToInt(x) == [k \in 0 .. 3 |-> x[k]]

\* Conversion of an int to size_t: the sign bit is extended.
ToSizeT(x) == [k \in 0 .. 7 |-> IF k < 4 THEN x[k]
                                 ELSE IF x[3] >= 128 THEN 255 ELSE 0]

\* a[0] * b[k] + a[1] * b[k-1] + ... + a[i] * b[k-i], for a, b of w bytes.
RECURSIVE Column(_, _, _, _)
Column(a, b, k, i) ==
    IF i < 0 THEN 0 ELSE Column(a, b, k, i - 1) + a[i] * b[k - i]

\* Bytes k .. w-1 of the product of a and b (w bytes each), given the carry
\* into byte k; acc holds bytes 0 .. k-1.
RECURSIVE MultiplyFrom(_, _, _, _, _, _)
MultiplyFrom(a, b, w, k, carry, acc) ==
    IF k = w THEN acc
    ELSE LET t == carry + Column(a, b, k, k)
         IN  MultiplyFrom(a, b, w, k + 1, t \div 256, PushBack(acc, t % 256))

\* std::multiplies<size_t>: the product modulo 2^64.
Multiplies(a, b) == MultiplyFrom(a, b, 8, 0, 0, EmptyVector)

\* The value of the bytes x, for the values the model's integers can hold.
RECURSIVE ValueFrom(_, _)
ValueFrom(x, k) == IF k = Size(x) THEN 0 ELSE x[k] + 256 * ValueFrom(x, k + 1)

Value(x) == ValueFrom(x, 0)

\* std::accumulate(first, last, 1, std::multiplies<size_t>()): the
\* accumulator has the type of the initial value 1, an int; each product is
\* computed in size_t and stored back into the int.
RECURSIVE accumulate(_, _, _)
accumulate(grid_size, i, init) ==
    IF i < dim
    THEN accumulate(grid_size, i + 1,
                    ToInt(Multiplies(ToSizeT(init), SizeT(grid_size[i]))))
    ELSE init

\* The initialiser of num_cells_: the int that accumulate returns, converted
\* to size_t.
NumCellsInitializer(grid_size) == ToSizeT(accumulate(grid_size, 0, IntLiteral(1)))

NumCells(grid_size) == Value(NumCellsInitializer(grid_size))

\* Faulty variant: only the first grid size is validated.
InvalidShape_FirstOnly(grid_size) == grid_size[0] = 0

\* The validation loop of the constructor.
InvalidShape(grid_size) == \E i \in 0 .. dim - 1 : grid_size[i] = 0

\* The constructor.  The member initialisers run first; the body validates
\* the shape and throws, or sizes the three per-cell vectors.
MultiGrid(grid_size, buff_size) ==
    /\ grid_size_ = grid_size
    /\ num_cells_ = NumCells(grid_size)
    /\ compressed_ = FALSE
    /\ raw_data_ = [data |-> EmptyVector, cell_ids |-> EmptyVector]
    /\ added = EmptyVector
    /\ num_added = 0
    /\ IF InvalidShape(grid_size)
       THEN /\ alive = FALSE
            /\ compressed_data_ =
                   [data |-> EmptyVector,
                    num_data_per_cell |-> EmptyVector,
                    first_data_id_per_cell |-> EmptyVector,
                    next_data_id_per_cell_buff |-> EmptyVector]
            /\ capacity = [raw_data |-> 0, raw_cell_ids |-> 0,
                           compressed_data |-> 0]
            /\ call = [name |-> "MultiGrid", grid_size |-> grid_size,
                       buff_size |-> buff_size, ret |-> "InvalidShape"]
       ELSE /\ alive = TRUE
            /\ compressed_data_ =
                   [data |-> EmptyVector,
                    num_data_per_cell |-> Resize(EmptyVector, num_cells_, 0),
                    first_data_id_per_cell |-> Resize(EmptyVector, num_cells_, 0),
                    next_data_id_per_cell_buff |-> Resize(EmptyVector, num_cells_, 0)]
            /\ capacity = [raw_data |-> Reserve(0, buff_size),
                           raw_cell_ids |-> Reserve(0, buff_size),
                           compressed_data |-> Reserve(0, buff_size)]
            /\ call = [name |-> "MultiGrid", grid_size |-> grid_size,
                       buff_size |-> buff_size, ret |-> "ok"]

Init == \E grid_size \in GridSize, buff_size \in BuffSizes :
            MultiGrid(grid_size, buff_size)

(* -------------------------------- add --------------------------------- *)

\* The capacities after the two push_back calls of add().
PushBackCapacity ==
    [capacity EXCEPT
        !.raw_data = Reallocate(@, Size(raw_data_.data) + 1),
        !.raw_cell_ids = Reallocate(@, Size(raw_data_.cell_ids) + 1)]

\* Faulty variant: a successful add() leaves compressed_ as it is.
add_KeepsFlag(cell_id, data) ==
    /\ alive
    /\ IF InvalidCellId(cell_id)
       THEN /\ call' = [name |-> "add", cell_id |-> cell_id, data |-> data,
                        was_compressed |-> compressed_, ret |-> "OutOfRange"]
            /\ UNCHANGED <<members, added, num_added>>
       ELSE /\ num_added < MaxAdds
            /\ raw_data_' = [data |-> PushBack(raw_data_.data, data),
                             cell_ids |-> PushBack(raw_data_.cell_ids, cell_id)]
            /\ capacity' = PushBackCapacity
            /\ call' = [name |-> "add", cell_id |-> cell_id, data |-> data,
                        was_compressed |-> compressed_, ret |-> "ok"]
            /\ added' = PushBack(added, [cell_id |-> cell_id, data |-> data])
            /\ num_added' = num_added + 1
            /\ UNCHANGED <<alive, grid_size_, num_cells_, compressed_,
                           compressed_data_>>

\* Faulty variant: compressed_ is cleared before the cell id is validated.
add_UncompressesFirst(cell_id, data) ==
    /\ alive
    /\ compressed_' = FALSE
    /\ IF InvalidCellId(cell_id)
       THEN /\ call' = [name |-> "add", cell_id |-> cell_id, data |-> data,
                        was_compressed |-> compressed_, ret |-> "OutOfRange"]
            /\ UNCHANGED <<alive, grid_size_, num_cells_, raw_data_,
                           compressed_data_, capacity, added, num_added>>
       ELSE /\ num_added < MaxAdds
            /\ raw_data_' = [data |-> PushBack(raw_data_.data, data),
                             cell_ids |-> PushBack(raw_data_.cell_ids, cell_id)]
            /\ capacity' = PushBackCapacity
            /\ call' = [name |-> "add", cell_id |-> cell_id, data |-> data,
                        was_compressed |-> compressed_, ret |-> "ok"]
            /\ added' = PushBack(added, [cell_id |-> cell_id, data |-> data])
            /\ num_added' = num_added + 1
            /\ UNCHANGED <<alive, grid_size_, num_cells_, compressed_data_>>

\* Faulty variant: the reserved storage is a hard limit; an add() that finds it
\* full fails with a length error instead of reallocating.
add_RefusesWhenFull(cell_id, data) ==
    /\ alive
    /\ IF InvalidCellId(cell_id)
       THEN /\ call' = [name |-> "add", cell_id |-> cell_id, data |-> data,
                        was_compressed |-> compressed_, ret |-> "OutOfRange"]
            /\ UNCHANGED <<members, added, num_added>>
       ELSE IF Size(raw_data_.data) >= capacity.raw_data
       THEN /\ call' = [name |-> "add", cell_id |-> cell_id, data |-> data,
                        was_compressed |-> compressed_, ret |-> "LengthError"]
            /\ UNCHANGED <<members, added, num_added>>
       ELSE /\ num_added < MaxAdds
            /\ compressed_' = IF compressed_ THEN FALSE ELSE compressed_
            /\ raw_data_' = [data |-> PushBack(raw_data_.data, data),
                             cell_ids |-> PushBack(raw_data_.cell_ids, cell_id)]
            /\ capacity' = PushBackCapacity
            /\ call' = [name |-> "add", cell_id |-> cell_id, data |-> data,
                        was_compressed |-> compressed_, ret |-> "ok"]
            /\ added' = PushBack(added, [cell_id |-> cell_id, data |-> data])
            /\ num_added' = num_added + 1
            /\ UNCHANGED <<alive, grid_size_, num_cells_, compressed_data_>>

add(cell_id, data) ==
    /\ alive
    /\ IF InvalidCellId(cell_id)
       THEN /\ call' = [name |-> "add", cell_id |-> cell_id, data |-> data,
                        was_compressed |-> compressed_, ret |-> "OutOfRange"]
            /\ UNCHANGED <<members, added, num_added>>
       ELSE /\ num_added < MaxAdds
            /\ compressed_' = IF compressed_ THEN FALSE ELSE compressed_
            /\ raw_data_' = [data |-> PushBack(raw_data_.data, data),
                             cell_ids |-> PushBack(raw_data_.cell_ids, cell_id)]
            /\ capacity' = PushBackCapacity
            /\ call' = [name |-> "add", cell_id |-> cell_id, data |-> data,
                        was_compressed |-> compressed_, ret |-> "ok"]
            /\ added' = PushBack(added, [cell_id |-> cell_id, data |-> data])
            /\ num_added' = num_added + 1
            /\ UNCHANGED <<alive, grid_size_, num_cells_, compressed_data_>>

(* ------------------------------- clear -------------------------------- *)

\* Faulty variant: the compressed buffer is released together with the raw one.
clear_ReleasesCompressed ==
    /\ alive
    /\ compressed_' = IF compressed_ THEN FALSE ELSE compressed_
    /\ raw_data_' = [data |-> EmptyVector, cell_ids |-> EmptyVector]
    /\ compressed_data_' =
           [data |-> EmptyVector,
            num_data_per_cell |-> Fill(compressed_data_.num_data_per_cell, 0),
            first_data_id_per_cell |->
                Fill(compressed_data_.first_data_id_per_cell, 0),
            next_data_id_per_cell_buff |->
                compressed_data_.next_data_id_per_cell_buff]
    /\ call' = [name |-> "clear", was_compressed |-> compressed_, ret |-> "ok"]
    /\ added' = EmptyVector
    /\ UNCHANGED <<alive, grid_size_, num_cells_, capacity, num_added>>

\* Faulty variant: the raw cell ids are not cleared.
clear_KeepsCellIds ==
    /\ alive
    /\ compressed_' = IF compressed_ THEN FALSE ELSE compressed_
    /\ raw_data_' = [data |-> EmptyVector, cell_ids |-> raw_data_.cell_ids]
    /\ call' = [name |-> "clear", was_compressed |-> compressed_, ret |-> "ok"]
    /\ added' = EmptyVector
    /\ UNCHANGED <<alive, grid_size_, num_cells_, compressed_data_, capacity,
                   num_added>>

clear ==
    /\ alive
    /\ compressed_' = IF compressed_ THEN FALSE ELSE compressed_
    /\ raw_data_' = [data |-> EmptyVector, cell_ids |-> EmptyVector]
    /\ call' = [name |-> "clear", was_compressed |-> compressed_, ret |-> "ok"]
    /\ added' = EmptyVector
    /\ UNCHANGED <<alive, grid_size_, num_cells_, compressed_data_, capacity,
                   num_added>>

(* ------------------------------ compress ------------------------------ *)

\* One iteration of the counting loop: the cell of raw entry i gets one more.
CountStep(num_data_per_cell, cell_id) ==
    LET storage_id == linearize(cell_id)
    IN  [num_data_per_cell EXCEPT ![storage_id] = @ + 1]

\* "Compute how much data is stored in each cell", from raw entry i on.
RECURSIVE CountLoop(_, _)
CountLoop(num_data_per_cell, i) ==
    IF i < Size(raw_data_.cell_ids)
    THEN CountLoop(CountStep(num_data_per_cell, raw_data_.cell_ids[i]), i + 1)
    ELSE num_data_per_cell

\* Faulty variant: the counts are not zeroed before counting.
CountPass_NoFill(num_data_per_cell) == CountLoop(num_data_per_cell, 0)

CountPass(num_data_per_cell) == CountLoop(Fill(num_data_per_cell, 0), 0)

\* Faulty variant: the running sum is advanced before it is stored.
PrefixStep_Inclusive(p, num_data_per_cell, i) ==
    [first |-> [p.first EXCEPT ![i] = p.buff + num_data_per_cell[i]],
     buff |-> p.buff + num_data_per_cell[i]]

\* One iteration of the prefix loop; p = [first, buff] holds
\* first_data_id_per_cell and first_data_id_buff.
PrefixStep(p, num_data_per_cell, i) ==
    [first |-> [p.first EXCEPT ![i] = p.buff],
     buff |-> p.buff + num_data_per_cell[i]]

\* "Compute the starting ids of data in the compressed format", from cell i on.
RECURSIVE PrefixLoop(_, _, _)
PrefixLoop(p, num_data_per_cell, i) ==
    IF i < num_cells_
    THEN PrefixLoop(PrefixStep(p, num_data_per_cell, i), num_data_per_cell, i + 1)
    ELSE p.first

PrefixPass(first_data_id_per_cell, num_data_per_cell) ==
    PrefixLoop([first |-> Fill(first_data_id_per_cell, 0), buff |-> 0],
               num_data_per_cell, 0)

\* Faulty variant: the next data id of the cell is not advanced.
ScatterStep_NoAdvance(w, i) ==
    LET storage_id == linearize(raw_data_.cell_ids[i])
        next_data_id == w.next[storage_id]
    IN  [data |-> [w.data EXCEPT ![next_data_id] = raw_data_.data[i]],
         next |-> w.next,
         written |-> PushBack(w.written, [storage_id |-> storage_id,
                                          data_id |-> next_data_id])]

\* One iteration of the writing loop; w = [data, next, written] holds
\* compressed_data_.data, next_data_id_per_cell_buff and, as history, the
\* (storage_id, next_data_id) of every write made so far.
ScatterStep(w, i) ==
    LET storage_id == linearize(raw_data_.cell_ids[i])
        next_data_id == w.next[storage_id]
    IN  [data |-> [w.data EXCEPT ![next_data_id] = raw_data_.data[i]],
         next |-> [w.next EXCEPT ![storage_id] = @ + 1],
         written |-> PushBack(w.written, [storage_id |-> storage_id,
                                          data_id |-> next_data_id])]

\* "Write the compressed data", from raw entry i on.
RECURSIVE ScatterLoop(_, _)
ScatterLoop(w, i) ==
    IF i < Size(raw_data_.data)
    THEN ScatterLoop(ScatterStep(w, i), i + 1)
    ELSE w

\* Faulty variant: the raw entries are visited from the last to the first.
RECURSIVE ScatterLoop_Backwards(_, _)
ScatterLoop_Backwards(w, i) ==
    IF i > 0
    THEN ScatterLoop_Backwards(ScatterStep(w, i - 1), i - 1)
    ELSE w

ScatterPass_Backwards(data, first_data_id_per_cell) ==
    ScatterLoop_Backwards(
        [data |-> Resize(data, Size(raw_data_.data), DefaultData),
         next |-> first_data_id_per_cell,
         written |-> EmptyVector], Size(raw_data_.data))

\* Faulty variant: the next data ids start from the counts, not from the
\* first data ids.
ScatterPass_FromCounts(data, first_data_id_per_cell) ==
    ScatterLoop([data |-> Resize(data, Size(raw_data_.data), DefaultData),
                 next |-> CountPass(compressed_data_.num_data_per_cell),
                 written |-> EmptyVector], 0)

ScatterPass(data, first_data_id_per_cell) ==
    ScatterLoop([data |-> Resize(data, Size(raw_data_.data), DefaultData),
                 next |-> first_data_id_per_cell,
                 written |-> EmptyVector], 0)

\* The three passes of compress().
Passes ==
    LET num == CountPass(compressed_data_.num_data_per_cell)
        first == PrefixPass(compressed_data_.first_data_id_per_cell, num)
    IN  [num |-> num, first |-> first,
         w |-> ScatterPass(compressed_data_.data, first)]

\* What compress() leaves in compressed_data_ when it does not return early.
Compressed ==
    LET passes == Passes
    IN  [data |-> passes.w.data,
         num_data_per_cell |-> passes.num,
         first_data_id_per_cell |-> passes.first,
         next_data_id_per_cell_buff |-> passes.w.next]

\* The capacities after data.resize(raw_data_.data.size()).
ResizeCapacity ==
    [capacity EXCEPT !.compressed_data = Reallocate(@, Size(raw_data_.data))]

\* The record kept of a compress() call: besides the usual, the size data
\* had when the call was made and the writes the call made to data.
CompressCall(written) ==
    [name |-> "compress", was_compressed |-> compressed_, ret |-> "ok",
     old_size |-> Size(compressed_data_.data), written |-> written]

\* Faulty variant: no early return, and the scratch offsets of the previous run are
\* used instead of a fresh copy of the start offsets.
compress_Rescatters ==
    /\ alive
    /\ call' = CompressCall(EmptyVector)
    /\ LET num == CountPass(compressed_data_.num_data_per_cell)
           first == PrefixPass(compressed_data_.first_data_id_per_cell, num)
           w == ScatterPass(compressed_data_.data,
                            compressed_data_.next_data_id_per_cell_buff)
       IN  compressed_data_' =
               [data |-> w.data,
                num_data_per_cell |-> num,
                first_data_id_per_cell |-> first,
                next_data_id_per_cell_buff |-> w.next]
    /\ compressed_' = TRUE
    /\ capacity' = ResizeCapacity
    /\ UNCHANGED <<alive, grid_size_, num_cells_, raw_data_, added, num_added>>

\* Faulty variant: the raw buffer is emptied once it has been compressed.
compress_ConsumesRaw ==
    /\ alive
    /\ IF compressed_
       THEN /\ call' = CompressCall(EmptyVector)
            /\ UNCHANGED <<members, added, num_added>>
       ELSE /\ call' = CompressCall(Passes.w.written)
            /\ compressed_data_' = Compressed
            /\ compressed_' = TRUE
            /\ capacity' = ResizeCapacity
            /\ raw_data_' = [data |-> EmptyVector, cell_ids |-> EmptyVector]
            /\ UNCHANGED <<alive, grid_size_, num_cells_, added, num_added>>

compress ==
    /\ alive
    /\ IF compressed_
       THEN /\ call' = CompressCall(EmptyVector)
            /\ UNCHANGED <<members, added, num_added>>
       ELSE /\ LET passes == Passes
               IN  /\ call' = CompressCall(passes.w.written)
                   /\ compressed_data_' =
                          [data |-> passes.w.data,
                           num_data_per_cell |-> passes.num,
                           first_data_id_per_cell |-> passes.first,
                           next_data_id_per_cell_buff |-> passes.w.next]
            /\ compressed_' = TRUE
            /\ capacity' = ResizeCapacity
            /\ UNCHANGED <<alive, grid_size_, num_cells_, raw_data_, added, num_added>>

(* --------------------------- enumerateData ---------------------------- *)

\* Faulty variant: the end iterator points at the last datum instead of past it.
DataBounds_InclusiveEnd(cell_id) ==
    LET storage_id == linearize(cell_id)
        begin_it == compressed_data_.first_data_id_per_cell[storage_id]
        end_it == begin_it + compressed_data_.num_data_per_cell[storage_id] - 1
    IN  [begin |-> begin_it, end |-> end_it]

\* The iterators of a valid cell, as offsets from compressed_data_.data.begin().
DataBounds(cell_id) ==
    LET storage_id == linearize(cell_id)
        begin_it == compressed_data_.first_data_id_per_cell[storage_id]
        end_it == begin_it + compressed_data_.num_data_per_cell[storage_id]
    IN  [begin |-> begin_it, end |-> end_it]

\* Faulty variant: the cell id is validated before the compressed flag is looked at.
enumerateData_RangeFirst(cell_id) ==
    /\ alive
    /\ call' =
         IF InvalidCellId(cell_id)
         THEN [name |-> "enumerateData", cell_id |-> cell_id,
               was_compressed |-> compressed_, ret |-> "OutOfRange"]
         ELSE IF ~compressed_
         THEN [name |-> "enumerateData", cell_id |-> cell_id,
               was_compressed |-> compressed_, ret |-> "NotCompressed"]
         ELSE [name |-> "enumerateData", cell_id |-> cell_id,
               was_compressed |-> compressed_, ret |-> "ok",
               begin |-> DataBounds(cell_id).begin,
               end |-> DataBounds(cell_id).end]
    /\ UNCHANGED <<members, added, num_added>>

\* Faulty variant: an uncompressed grid is compressed by the query.
enumerateData_AutoCompress(cell_id) ==
    /\ alive
    /\ compressed_data_' = IF compressed_ THEN compressed_data_ ELSE Compressed
    /\ capacity' = IF compressed_ THEN capacity ELSE ResizeCapacity
    /\ compressed_' = TRUE
    /\ call' =
         IF InvalidCellId(cell_id)
         THEN [name |-> "enumerateData", cell_id |-> cell_id,
               was_compressed |-> compressed_, ret |-> "OutOfRange"]
         ELSE [name |-> "enumerateData", cell_id |-> cell_id,
               was_compressed |-> compressed_, ret |-> "ok",
               begin |-> IF compressed_ THEN DataBounds(cell_id).begin
                         ELSE Passes.first[linearize(cell_id)],
               end |-> IF compressed_ THEN DataBounds(cell_id).end
                       ELSE Passes.first[linearize(cell_id)]
                              + Passes.num[linearize(cell_id)]]
    /\ UNCHANGED <<alive, grid_size_, num_cells_, raw_data_, added, num_added>>

\* enumerateData() is const: it returns or throws, and changes no member.
enumerateData(cell_id) ==
    /\ alive
    /\ call' =
         IF ~compressed_
         THEN [name |-> "enumerateData", cell_id |-> cell_id,
               was_compressed |-> compressed_, ret |-> "NotCompressed"]
         ELSE IF InvalidCellId(cell_id)
         THEN [name |-> "enumerateData", cell_id |-> cell_id,
               was_compressed |-> compressed_, ret |-> "OutOfRange"]
         ELSE [name |-> "enumerateData", cell_id |-> cell_id,
               was_compressed |-> compressed_, ret |-> "ok",
               begin |-> DataBounds(cell_id).begin,
               end |-> DataBounds(cell_id).end]
    /\ UNCHANGED <<members, added, num_added>>

(* --------------------------- specification ---------------------------- *)

Next ==
    \/ \E cell_id \in CellId, data \in Data : add(cell_id, data)
    \/ clear
    \/ compress
    \/ \E cell_id \in CellId : enumerateData(cell_id)

Spec == Init /\ [][Next]_vars

(* A second specification, for linearize() alone: grids of every shape up *)
(* to MaxLinExtent in each dimension, and linearize() applied to the cell  *)
(* ids its callers let through (add() and enumerateData() validate first). *)

LinGridSize == [0 .. dim - 1 -> 1 .. MaxLinExtent]
LinCellId == [0 .. dim - 1 -> 0 .. MaxLinExtent - 1]

LinInit == \E grid_size \in LinGridSize : MultiGrid(grid_size, 0)

LinearizeCall(cell_id) ==
    /\ alive
    /\ ~InvalidCellId(cell_id)
    /\ call' = [name |-> "linearize", cell_id |-> cell_id, ret |-> linearize(cell_id)]
    /\ UNCHANGED <<members, added, num_added>>

LinNext == \E cell_id \in LinCellId : LinearizeCall(cell_id)

LinSpec == LinInit /\ [][LinNext]_vars

(* A third specification, for the initialiser of num_cells_ alone: it is   *)
(* applied to shapes whose extents reach past 2^16, so that the product of *)
(* the extents reaches past the range of int.  The state holds the shape   *)
(* handed to the constructor; no other member is initialised yet, and the  *)
(* value computed for num_cells_ is kept, as bytes, in `call`.             *)

WideExtents == {1, 2, 3, 255, 256, 32768, 46340, 46341, 65535, 65536, 65537}
WideGridSize == [0 .. dim - 1 -> WideExtents]

NumInit ==
    \E grid_size \in WideGridSize :
        /\ alive = FALSE
        /\ grid_size_ = grid_size
        /\ num_cells_ = 0
        /\ compressed_ = FALSE
        /\ raw_data_ = [data |-> EmptyVector, cell_ids |-> EmptyVector]
        /\ compressed_data_ =
               [data |-> EmptyVector,
                num_data_per_cell |-> EmptyVector,
                first_data_id_per_cell |-> EmptyVector,
                next_data_id_per_cell_buff |-> EmptyVector]
        /\ capacity = [raw_data |-> 0, raw_cell_ids |-> 0, compressed_data |-> 0]
        /\ call = [name |-> "none"]
        /\ added = EmptyVector
        /\ num_added = 0

NumCellsCall ==
    /\ ~alive
    /\ call' = [name |-> "num_cells_", grid_size |-> grid_size_,
                ret |-> NumCellsInitializer(grid_size_)]
    /\ UNCHANGED <<members, added, num_added>>

NumNext == NumCellsCall

NumSpec == NumInit /\ [][NumNext]_vars

(* ===================== what the claims speak about ==================== *)

\* The cell ids of the grid: every component below the extent.
InRange(c) == \A i \in 0 .. dim - 1 : c[i] < grid_size_[i]

ValidCells == {c \in [0 .. dim - 1 -> 0 .. MaxLinExtent - 1] : InRange(c)}

\* n_0 * ... * n_{i-1}
RECURSIVE ExtentProduct(_, _)
ExtentProduct(n, i) == IF i = 0 THEN 1 ELSE ExtentProduct(n, i - 1) * n[i - 1]

\* C, the number of cells of the grid.
C == ExtentProduct(grid_size_, dim)

\* c_0 + c_1 * n_0 + ... + c_{i-1} * (n_0 * ... * n_{i-2})
RECURSIVE WeightedSum(_, _)
WeightedSum(c, i) ==
    IF i = 0 THEN 0
    ELSE WeightedSum(c, i - 1) + c[i - 1] * ExtentProduct(grid_size_, i - 1)

\* v[0] + ... + v[k-1]
RECURSIVE SumBelow(_, _)
SumBelow(v, k) == IF k = 0 THEN 0 ELSE SumBelow(v, k - 1) + v[k - 1]

\* The multiset of the values v takes on the indices in S.
Multiset(v, S) == [x \in {v[i] : i \in S} |-> Cardinality({i \in S : v[i] = x})]

\* The indices of the raw entries whose cell id is c.
RawOf(c) == {i \in DOMAIN raw_data_.cell_ids : raw_data_.cell_ids[i] = c}

\* The data added with cell id c since construction or the last clear().
AddedTo(c) ==
    Multiset([i \in DOMAIN added |-> added[i].data],
             {i \in DOMAIN added : added[i].cell_id = c})

count == compressed_data_.num_data_per_cell
start == compressed_data_.first_data_id_per_cell
scratch == compressed_data_.next_data_id_per_cell_buff

\* The cells holding at least one raw entry.
OccupiedCells == {raw_data_.cell_ids[i] : i \in DOMAIN raw_data_.cell_ids}

(* ------------------------------- C1 ----------------------------------- *)
\* C1: whenever the compressed flag is true the compressed buffer mirrors
\* the raw buffer: data is as long as the raw items, and for every cell c
\* with s = linearize(c) the multiset of data[start[s] .. start[s]+count[s])
\* is the multiset of the raw items whose raw cell id is c.
C1_CompressedMirrorsRaw ==
    (alive /\ compressed_) =>
        /\ Size(compressed_data_.data) = Size(raw_data_.data)
        /\ \A c \in ValidCells :
              LET s == linearize(c)
              IN  /\ s \in DOMAIN count /\ s \in DOMAIN start
                  /\ start[s] + count[s] <= Size(compressed_data_.data)
                  /\ Multiset(compressed_data_.data,
                              start[s] .. start[s] + count[s] - 1)
                       = Multiset(raw_data_.data, RawOf(c))

\* A compressed grid of two different data in two cells, added in the
\* order opposite to that of their cells.
C1_Witness ==
    /\ alive /\ compressed_
    /\ Size(raw_data_.data) = 2
    /\ Cardinality(OccupiedCells) = 2
    /\ linearize(raw_data_.cell_ids[0]) > linearize(raw_data_.cell_ids[1])
    /\ raw_data_.data[0] # raw_data_.data[1]

(* ------------------------------- C2 ----------------------------------- *)
\* C2: on a compressed grid enumerateData(c) succeeds for every in-range
\* cell c and returns [start[s], start[s]+count[s]) with s = linearize(c);
\* the range has count[s] elements, lies within data, and holds exactly the
\* data added with cell id c since construction or the last clear().
C2_EnumerateYieldsAdded ==
    (alive /\ call.name = "enumerateData") =>
        /\ (compressed_ /\ InRange(call.cell_id)) => call.ret = "ok"
        /\ call.ret = "ok" =>
              LET s == linearize(call.cell_id)
              IN  /\ InRange(call.cell_id)
                  /\ call.begin = start[s]
                  /\ call.end = start[s] + count[s]
                  /\ call.end - call.begin = count[s]
                  /\ call.end <= Size(compressed_data_.data)
                  /\ Multiset(compressed_data_.data, call.begin .. call.end - 1)
                       = AddedTo(call.cell_id)

\* enumerateData() returning the datum of one cell while another was added
\* to an earlier cell.
C2_Witness ==
    /\ call.name = "enumerateData" /\ call.ret = "ok"
    /\ call.end - call.begin = 1
    /\ Size(added) = 2
    /\ call.begin > 0

(* ------------------------------- C3 ----------------------------------- *)
\* C3 as stated: add() and clear() always leave the compressed flag false.
C3_Original_AddClearAlwaysUncompress ==
    (alive /\ call.name \in {"add", "clear"}) => ~compressed_

\* C3 amended: a successful add() and every clear() leave the flag false,
\* only compress() sets it true, and enumerateData() called with any cell
\* id while the flag is false fails with NotCompressed.
C3_UncompressedRefusesEnumerate ==
    [][/\ (call'.name = "clear" \/ (call'.name = "add" /\ call'.ret = "ok"))
            => ~compressed_'
       /\ (~compressed_ /\ compressed_') => call'.name = "compress"
       /\ (call'.name = "enumerateData" /\ ~compressed_)
            => call'.ret = "NotCompressed"]_vars

\* enumerateData() refused with an out-of-range cell id, after an add()
\* that followed a compress().
C3_Witness ==
    /\ call.name = "enumerateData" /\ call.ret = "NotCompressed"
    /\ ~InRange(call.cell_id)
    /\ Size(compressed_data_.data) > 0
    /\ Size(raw_data_.data) > Size(compressed_data_.data)

(* ------------------------------- C4 ----------------------------------- *)
\* C4: in every state, stale or not, the counts sum to |data|, start[0] = 0,
\* start[c] is the sum of the counts of the cells below c, and
\* start[C-1] + count[C-1] = |data|; after every compress() the counts also
\* sum to the number of raw items.
C4_CsrWellFormed ==
    alive =>
        /\ DOMAIN count = 0 .. C - 1
        /\ DOMAIN start = 0 .. C - 1
        /\ SumBelow(count, C) = Size(compressed_data_.data)
        /\ start[0] = 0
        /\ \A c \in 0 .. C - 1 : start[c] = SumBelow(count, c)
        /\ start[C - 1] + count[C - 1] = Size(compressed_data_.data)
        /\ call.name = "compress" => SumBelow(count, C) = Size(raw_data_.data)

\* A stale buffer: one datum compressed into a cell before the last, the
\* raw buffer cleared since and refilled with one.
C4_Witness ==
    /\ alive /\ ~compressed_
    /\ Size(compressed_data_.data) = 1
    /\ Size(raw_data_.data) = 1
    /\ num_added = 2
    /\ start[C - 1] = 1

(* ------------------------------- C5 ----------------------------------- *)
\* C5: add() with a cell id that has a component >= the grid size fails
\* with OutOfRange and leaves the raw buffer, the compressed flag and the
\* compressed buffer as they were.
C5_RejectedAddChangesNothing ==
    [][(call'.name = "add" /\ ~InRange(call'.cell_id))
          => /\ call'.ret = "OutOfRange"
             /\ UNCHANGED <<members, added>>]_vars

\* An add() rejected by a compressed, non-empty grid, which is still
\* compressed.
C5_Witness ==
    /\ call.name = "add" /\ call.ret = "OutOfRange"
    /\ call.was_compressed /\ compressed_
    /\ Size(compressed_data_.data) >= 2

(* ------------------------------- C6 ----------------------------------- *)
\* C6 as stated: enumerateData() with an out-of-range cell id fails with
\* OutOfRange in every state of the grid.
C6_Original_OutOfRangeInEveryState ==
    (alive /\ call.name = "enumerateData" /\ ~InRange(call.cell_id))
        => call.ret = "OutOfRange"

\* C6 amended: enumerateData() with an out-of-range cell id fails with
\* OutOfRange when the grid is compressed, and with NotCompressed when it
\* is not; in both cases it leaves the container unchanged.
C6_OutOfRangeEnumerate ==
    [][(call'.name = "enumerateData" /\ ~InRange(call'.cell_id))
          => /\ call'.ret = IF compressed_ THEN "OutOfRange" ELSE "NotCompressed"
             /\ UNCHANGED <<members, added>>]_vars

\* enumerateData() failing with OutOfRange on a compressed grid that holds
\* data.
C6_Witness ==
    /\ call.name = "enumerateData" /\ call.ret = "OutOfRange"
    /\ compressed_
    /\ Size(compressed_data_.data) >= 1

(* ------------------------------- C7 ----------------------------------- *)
\* C7: compress() on a grid whose compressed flag is true changes nothing:
\* raw buffer, data, count, start, scratch and flag are as before.
C7_CompressIdempotent ==
    [][(compressed_ /\ call'.name = "compress")
          => /\ call'.ret = "ok"
             /\ UNCHANGED <<members, added>>]_vars

\* The second of two compress() calls on a grid holding data in two cells.
C7_Witness ==
    /\ call.name = "compress" /\ call.was_compressed
    /\ compressed_
    /\ Cardinality(OccupiedCells) >= 2

(* ------------------------------- C8 ----------------------------------- *)
\* C8: compress() right after clear(), or right after construction, leaves
\* every count 0 and data empty, and enumerateData(c) then yields an empty
\* range for every in-range cell c.
C8_ClearThenCompressIsEmpty ==
    [][((call.name = "clear" \/ (call.name = "MultiGrid" /\ call.ret = "ok"))
          /\ call'.name = "compress")
          => /\ compressed_'
             /\ Size(compressed_data_'.data) = 0
             /\ \A s \in 0 .. C - 1 : compressed_data_'.num_data_per_cell[s] = 0
             /\ \A c \in ValidCells :
                   DataBounds(c)'.begin = DataBounds(c)'.end]_vars

\* compress() of an emptied grid to which data had been added before.
C8_Witness ==
    /\ call.name = "compress" /\ ~call.was_compressed
    /\ Size(raw_data_.data) = 0
    /\ num_added >= 2

(* ------------------------------- C9 ----------------------------------- *)
\* C9: linearize maps (c_0, ..., c_{D-1}) to the sum of c_i times the
\* product of the n_j with j < i, and is a bijection from the in-range cell
\* ids onto 0 .. C-1.
C9_LinearizeBijective ==
    alive =>
        /\ \A c \in ValidCells : linearize(c) = WeightedSum(c, dim)
        /\ \A c1, c2 \in ValidCells : linearize(c1) = linearize(c2) => c1 = c2
        /\ {linearize(c) : c \in ValidCells} = 0 .. C - 1
        /\ call.name = "linearize" => call.ret = WeightedSum(call.cell_id, dim)

\* Cell (2,3) of the 3 x 4 grid linearized to 11.
C9_Witness ==
    /\ call.name = "linearize"
    /\ grid_size_[0] = 3 /\ grid_size_[1] = 4
    /\ call.cell_id[0] = 2 /\ call.cell_id[1] = 3
    /\ call.ret = 11

(* ------------------------------- C10 ---------------------------------- *)
\* C10: construction fails with InvalidShape exactly when some grid size is
\* 0; otherwise the flag is false, the raw sequences and data are empty,
\* and count, start and scratch have length C and hold only zeros.
C10_Construction ==
    call.name = "MultiGrid" =>
        /\ call.ret = "InvalidShape" <=> \E i \in 0 .. dim - 1 : call.grid_size[i] = 0
        /\ call.ret \in {"InvalidShape", "ok"}
        /\ call.ret = "InvalidShape" => ~alive
        /\ call.ret = "ok" =>
              /\ alive
              /\ grid_size_ = call.grid_size
              /\ ~compressed_
              /\ Size(raw_data_.data) = 0
              /\ Size(raw_data_.cell_ids) = 0
              /\ Size(compressed_data_.data) = 0
              /\ count = [s \in 0 .. C - 1 |-> 0]
              /\ start = [s \in 0 .. C - 1 |-> 0]
              /\ scratch = [s \in 0 .. C - 1 |-> 0]

\* Construction refused for a zero in the second dimension only.
C10_Witness ==
    /\ call.name = "MultiGrid" /\ call.ret = "InvalidShape"
    /\ call.grid_size[0] = 2 /\ call.grid_size[1] = 0

(* ------------------------------- C11 ---------------------------------- *)

\* The natural number n in 16 bytes, wide enough for the exact product of
\* the extents examined.
Wide(n) == [k \in 0 .. 15 |-> Byte(n, k)]

\* A size_t widened to 16 bytes.
Widen(x) == [k \in 0 .. 15 |-> IF k < 8 THEN x[k] ELSE 0]

\* n_0 * ... * n_{i-1}, exactly.
RECURSIVE ExactProduct(_, _)
ExactProduct(n, i) ==
    IF i = 0 THEN Wide(1)
    ELSE MultiplyFrom(ExactProduct(n, i - 1), Wide(n[i - 1]), 16, 0, 0,
                      EmptyVector)

\* C11: the cell count computed at construction is the exact product of
\* the extents, also when the product or a partial product exceeds the
\* range of a 32-bit signed integer while fitting size_t.
C11_NumCellsIsExactProduct ==
    call.name = "num_cells_" =>
        Widen(call.ret) = ExactProduct(call.grid_size, dim)

(* ------------------------------- C12 ---------------------------------- *)

\* The raw items of cell c among the first i raw entries, in raw order.
RECURSIVE RawItemsOf(_, _)
RawItemsOf(c, i) ==
    IF i = 0 THEN << >>
    ELSE IF raw_data_.cell_ids[i - 1] = c
         THEN Append(RawItemsOf(c, i - 1), raw_data_.data[i - 1])
         ELSE RawItemsOf(c, i - 1)

\* The items of data[lo .. lo+n), in order.
Slice(lo, n) == [k \in 1 .. n |-> compressed_data_.data[lo + k - 1]]

\* C12: compress() is a stable scatter: on a compressed grid, for every
\* cell c with s = linearize(c), data[start[s] .. start[s]+count[s]) holds
\* the raw items of c in the order in which they were added.
C12_StableScatter ==
    (alive /\ compressed_) =>
        \A c \in ValidCells :
            LET s == linearize(c)
            IN  /\ start[s] + count[s] <= Size(compressed_data_.data)
                /\ Slice(start[s], count[s]) = RawItemsOf(c, Size(raw_data_.data))

\* A compressed grid with two different data in one cell, not the first.
C12_Witness ==
    /\ alive /\ compressed_
    /\ Size(raw_data_.data) = 2
    /\ raw_data_.cell_ids[0] = raw_data_.cell_ids[1]
    /\ raw_data_.data[0] # raw_data_.data[1]
    /\ linearize(raw_data_.cell_ids[0]) > 0

(* ------------------------------- C13 ---------------------------------- *)

\* data holds, cell by cell, every datum added since construction or the
\* last clear().
HoldsAllAdded ==
    /\ Size(compressed_data_.data) = Size(added)
    /\ \A c \in ValidCells :
          LET s == linearize(c)
          IN  /\ start[s] + count[s] <= Size(compressed_data_.data)
              /\ Multiset(compressed_data_.data,
                          start[s] .. start[s] + count[s] - 1) = AddedTo(c)

\* C13: compress() leaves the raw buffer as it is, so after any compress()
\* the compressed buffer holds all the data added since construction or
\* the last clear(), not only those added since the previous compress().
C13_ItemsAccumulate ==
    [][call'.name = "compress"
          => /\ raw_data_' = raw_data_
             /\ Size(raw_data_'.data) = Size(added')
             /\ HoldsAllAdded']_vars

\* add(x); compress(); add(y); compress(): the second compress() found one
\* datum in data and left two, and no clear() ever dropped a datum.
C13_Witness ==
    /\ call.name = "compress" /\ ~call.was_compressed
    /\ call.old_size = 1
    /\ Size(compressed_data_.data) = 2
    /\ Size(added) = 2 /\ num_added = 2

(* ------------------------------- C18 ---------------------------------- *)
\* C18: in the writing loop of compress() every data id taken for an item
\* of cell s lies in [start[s], start[s]+count[s]) and is below |data|, no
\* slot of data is written twice, and at the end
\* scratch[s] = start[s] + count[s] for every cell s.
C18_ScatterWrites ==
    (alive /\ call.name = "compress" /\ ~call.was_compressed) =>
        /\ Size(call.written) = Size(raw_data_.data)
        /\ \A k \in DOMAIN call.written :
              LET s == call.written[k].storage_id
                  d == call.written[k].data_id
              IN  /\ s = linearize(raw_data_.cell_ids[k])
                  /\ start[s] <= d
                  /\ d < start[s] + count[s]
                  /\ d < Size(compressed_data_.data)
        /\ \A j, k \in DOMAIN call.written :
              call.written[j].data_id = call.written[k].data_id => j = k
        /\ \A s \in 0 .. C - 1 : scratch[s] = start[s] + count[s]

\* A compress() that wrote two data into one cell, not the first.
C18_Witness ==
    /\ call.name = "compress" /\ ~call.was_compressed
    /\ Size(call.written) = 2
    /\ call.written[0].storage_id = call.written[1].storage_id
    /\ call.written[0].storage_id > 0

(* ------------------------------- C14 ---------------------------------- *)
\* C14: a successful add() and a clear() leave data, count, start and
\* scratch exactly as they were; only the raw buffer and the compressed
\* flag change.
C14_AddClearKeepCompressedBuffer ==
    [][(call'.name = "clear" \/ (call'.name = "add" /\ call'.ret = "ok"))
          => UNCHANGED <<compressed_data_, alive, grid_size_, num_cells_>>]_vars

\* clear() of a compressed grid: the two data compressed before are still
\* in data.
C14_Witness ==
    /\ call.name = "clear" /\ call.was_compressed
    /\ Size(raw_data_.data) = 0
    /\ Size(compressed_data_.data) = 2
    /\ start[C - 1] + count[C - 1] = 2

(* ------------------------------- C15 ---------------------------------- *)
\* C15: enumerateData() changes nothing, whether it succeeds or fails; on
\* an uncompressed grid it does not compress, and an enumerateData() that
\* follows one refused with NotCompressed is refused with it too.
C15_EnumerateChangesNothing ==
    [][call'.name = "enumerateData"
          => /\ UNCHANGED <<members, added>>
             /\ (call.name = "enumerateData" /\ call.ret = "NotCompressed")
                   => call'.ret = "NotCompressed"]_vars

\* enumerateData() of an in-range cell refused by a grid that holds two raw
\* data and was never compressed.
C15_Witness ==
    /\ call.name = "enumerateData" /\ call.ret = "NotCompressed"
    /\ InRange(call.cell_id)
    /\ ~compressed_
    /\ Size(raw_data_.data) = 2
    /\ Size(compressed_data_.data) = 0

(* ------------------------------- C16 ---------------------------------- *)
\* C16: the raw items and the raw cell ids always have the same length; a
\* successful add(c, x) puts x and c at the end of them and leaves the
\* earlier entries as they were; clear() empties both; no other call
\* changes them.
C16_RawBufferIsLog ==
    [][/\ Size(raw_data_.data) = Size(raw_data_.cell_ids)
       /\ Size(raw_data_'.data) = Size(raw_data_'.cell_ids)
       /\ IF call'.name = "add" /\ call'.ret = "ok"
          THEN /\ Size(raw_data_'.data) = Size(raw_data_.data) + 1
               /\ \A i \in DOMAIN raw_data_.data :
                     /\ raw_data_'.data[i] = raw_data_.data[i]
                     /\ raw_data_'.cell_ids[i] = raw_data_.cell_ids[i]
               /\ raw_data_'.data[Size(raw_data_.data)] = call'.data
               /\ raw_data_'.cell_ids[Size(raw_data_.data)] = call'.cell_id
          ELSE IF call'.name = "clear"
          THEN Size(raw_data_'.data) = 0 /\ Size(raw_data_'.cell_ids) = 0
          ELSE raw_data_' = raw_data_]_vars

\* The second add() in a row, of a datum and a cell other than the first.
C16_Witness ==
    /\ call.name = "add" /\ call.ret = "ok"
    /\ Size(raw_data_.data) = 2
    /\ raw_data_.data[1] = call.data
    /\ raw_data_.cell_ids[1] = call.cell_id
    /\ raw_data_.data[0] # raw_data_.data[1]
    /\ raw_data_.cell_ids[0] # raw_data_.cell_ids[1]

(* ------------------------------- C17 ---------------------------------- *)
\* C17: the capacity hint buff_size is advisory.  Whatever storage the raw
\* vectors have reserved, add() with an in-range cell id succeeds, also when
\* the raw buffer is as long as the reserved storage or longer: the vectors
\* then hold one entry more and have storage for it.  And no outcome depends
\* on the hint: whether add() and enumerateData() fail, the compressed flag
\* after each call, and the data enumerateData() returns are functions of
\* the shape, the arguments and the calls made before.
C17_HintIsAdvisory ==
    [][/\ call'.name = "add" =>
             /\ call'.ret = IF InRange(call'.cell_id) THEN "ok" ELSE "OutOfRange"
             /\ call'.ret = "ok" =>
                   /\ Size(raw_data_'.data) = Size(raw_data_.data) + 1
                   /\ Size(raw_data_'.cell_ids) = Size(raw_data_.cell_ids) + 1
                   /\ capacity'.raw_data >= Size(raw_data_'.data)
                   /\ capacity'.raw_cell_ids >= Size(raw_data_'.cell_ids)
                   /\ capacity'.raw_data >= capacity.raw_data
                   /\ capacity'.raw_cell_ids >= capacity.raw_cell_ids
       /\ call'.name = "enumerateData" =>
             /\ call'.ret = IF ~compressed_ THEN "NotCompressed"
                            ELSE IF InRange(call'.cell_id) THEN "ok"
                            ELSE "OutOfRange"
             /\ call'.ret = "ok" =>
                   Multiset(compressed_data_'.data, call'.begin .. call'.end - 1)
                     = AddedTo(call'.cell_id)
       /\ compressed_' =
             IF (call'.name = "add" /\ call'.ret = "ok") \/ call'.name = "clear"
             THEN FALSE
             ELSE IF call'.name = "compress" THEN TRUE ELSE compressed_
       /\ capacity'.compressed_data >= Size(compressed_data_'.data)]_vars

\* An add() that found the raw vectors full, with more entries than any hint
\* had reserved storage for, and succeeded.
C17_Witness ==
    /\ call.name = "add" /\ call.ret = "ok"
    /\ \A buff_size \in BuffSizes : Size(raw_data_.data) > buff_size
    /\ capacity.raw_data = Size(raw_data_.data)

====
